---------------------------- MODULE Spec2Model ----------------------------
(***************************************************************************)
(* A model of the BSBI inverted-index engine: the postings codecs of       *)
(* compression.py, and block inversion, the external merge, the indexing   *)
(* driver and boolean retrieval of bsbi.py.                                *)
(*                                                                         *)
(* Integers of the model stay below 2^31.  Bytes are naturals in 0..255,   *)
(* byte strings are sequences of bytes.                                    *)
(***************************************************************************)
EXTENDS Integers, Sequences, FiniteSets, TLC

VARIABLES
    \* ---- codec run (compression.py __main__: encode, then decode) ----
    postings_list,      \* the list handed to Postings.encode
    platform,           \* the C ABI of the build: size and byte order of 'L'
    codec,              \* which Postings class is under test
    encoded,            \* encoded_postings_list
    decoded,            \* decoded_posting_list
    cpc,                \* position in the run: "start", "encoded", "decoded"
    \* ---- BSBIIndex.merge_index(indices, merged_index) ----
    indices,            \* the readers: each the records its iteration yields
    merge,              \* the locals of merge_index and the writer's appends
    mpc,                \* "merge" while merge_index runs, then "done"
    \* ---- BSBIIndex.write_to_index(td_pairs, index) ----
    td_pairs,           \* the <termID, docID> pairs of one block
    index,              \* the appends the writer received
    wpc,                \* "start", then "done"
    \* ---- a BSBIIndex: start_indexing (bsbi.py), then queries (search.py) ----
    collection,         \* data_path: block name -> (document name -> its terms)
    files,              \* output_path: file name -> content
    self,               \* the BSBIIndex object: its IdMaps and attributes
    pc,                 \* where the running script is
    block_k,            \* start_indexing: blocks processed so far
    td,                 \* start_indexing: td_pairs of the block being processed
    query,              \* boolean_retrieve: the parsed query
    stack,              \* boolean_retrieve: the operand stack
    qpos,               \* boolean_retrieve: tokens of postfix_query consumed
    readers_opened,     \* boolean_retrieve: InvertedIndexReader objects made
    result_doc_ids,     \* boolean_retrieve: the list popped at the end
    result              \* boolean_retrieve: the returned list of documents

codecVars == <<postings_list, platform, codec, encoded, decoded, cpc>>
mergeVars == <<indices, merge, mpc>>
invertVars == <<td_pairs, index, wpc>>

indexVars == <<collection, files, self, pc, block_k, td>>
queryVars == <<query, stack, qpos, readers_opened, result_doc_ids, result>>
bsbiVars == <<indexVars, queryVars>>

vars == <<codecVars, mergeVars, invertVars, bsbiVars>>

\* The variables of the runs a specification does not exercise stay at rest.
CodecIdle ==
    /\ postings_list = <<>> /\ platform = [itemsize |-> 0, byteorder |-> "unset"]
    /\ codec = "none" /\ encoded = <<>> /\ decoded = <<>> /\ cpc = "idle"
MergeIdle == indices = <<>> /\ merge = <<>> /\ mpc = "idle"
InvertIdle == td_pairs = <<>> /\ index = <<>> /\ wpc = "idle"
QueryIdle ==
    /\ query = [valid |-> TRUE, postfix |-> <<>>] /\ stack = <<>> /\ qpos = 0
    /\ readers_opened = 0 /\ result_doc_ids = <<>> /\ result = <<>>
BsbiIdle ==
    /\ collection = <<>> /\ files = <<>> /\ self = <<>> /\ pc = "idle"
    /\ block_k = 0 /\ td = <<>> /\ QueryIdle

-----------------------------------------------------------------------------
(* Helpers on sequences and bits.                                          *)

Last(s) == s[Len(s)]

\* s[i:] of Python, i counted from 0.
Drop(s, i) == SubSeq(s, i + 1, Len(s))

\* n copies of v.
Rep(v, n) == [k \in 1..n |-> v]

\* Bit k of the non-negative integer v: (v >> k) & 1.  Integers of the model
\* are below 2^31, so bits 31 and up are 0.
NumBit(v, k) == IF k < 0 \/ k > 30 THEN 0 ELSE (v \div (2^k)) % 2

\* v < (1 << bits), for v below 2^31.
BelowPow2(v, bits) == bits > 30 \/ v < 2^bits

\* The byte whose bit t is bit[base + t], for a 64-bit integer given by its
\* bits, bit[0] the least significant.
ByteOf(bit, base) ==
    bit[base] + 2 * bit[base + 1] + 4 * bit[base + 2] + 8 * bit[base + 3]
    + 16 * bit[base + 4] + 32 * bit[base + 5] + 64 * bit[base + 6]
    + 128 * bit[base + 7]

\* int.to_bytes(8, byteorder='big') of the integer whose bits are bit.
to_bytes_big8(bit) == [b \in 1..8 |-> ByteOf(bit, 8 * (8 - b))]

\* Bit p of int.from_bytes(word, byteorder='big') for an 8-byte word.
BlockBit(word, p) ==
    IF p < 0 \/ p > 63 THEN 0 ELSE (word[8 - (p \div 8)] \div (2^(p % 8))) % 2

-----------------------------------------------------------------------------
(* StandardPostings: array.array('L').  The item size and byte order of    *)
(* 'L' (C unsigned long) are those of the build: 4 or 8 bytes, little or   *)
(* big endian.                                                             *)

Platforms == [itemsize : {4, 8}, byteorder : {"little", "big"}]

\* The bytes of one machine value v of size pf.itemsize.
MachineBytes(pf, v) ==
    LET le == [b \in 1..pf.itemsize |->
                 IF b > 4 THEN 0 ELSE (v \div (256^(b - 1))) % 256]
    IN  IF pf.byteorder = "little" THEN le
        ELSE [b \in 1..pf.itemsize |-> le[pf.itemsize + 1 - b]]

\* The machine value stored in bytes bs[off+1 .. off+itemsize].
MachineValue(pf, bs, off) ==
    LET at(b) == IF pf.byteorder = "little" THEN bs[off + b]
                 ELSE bs[off + pf.itemsize + 1 - b]
    IN  at(1) + 256 * at(2) + 65536 * at(3) + 16777216 * at(4)

StandardPostings_encode(pf, pl) ==
    [k \in 1..(pf.itemsize * Len(pl)) |->
        MachineBytes(pf, pl[((k - 1) \div pf.itemsize) + 1])
                    [((k - 1) % pf.itemsize) + 1]]

StandardPostings_decode(pf, bs) ==
    [k \in 1..(Len(bs) \div pf.itemsize) |->
        MachineValue(pf, bs, (k - 1) * pf.itemsize)]

-----------------------------------------------------------------------------
(* The gap transform shared by VBEPostings.encode and                      *)
(* Simple8bPostings.encode, and the prefix sum of the two decoders.        *)

gap_based_list(pl) ==
    [i \in 1..Len(pl) |-> IF i = 1 THEN pl[1] ELSE pl[i] - pl[i - 1]]

\* The loop "for i in range(lo, hi + 1): postings_list.append(
\* postings_list[i-1] + gaps[i])", run as its two halves one after the other
\* (the same appends in the same order).  Len(acc) >= 0 is always true: it
\* has acc evaluated before the loop goes on, which keeps evaluation shallow.
RECURSIVE prefix_sum_range(_, _, _, _)
prefix_sum_range(gaps, lo, hi, acc) ==
    IF Len(acc) >= 0 /\ lo > hi THEN acc
    ELSE IF lo = hi THEN Append(acc, Last(acc) + gaps[lo])
    ELSE LET mid == (lo + hi) \div 2
         IN  prefix_sum_range(gaps, mid + 1, hi,
                              prefix_sum_range(gaps, lo, mid, acc))

\* postings_list = [gaps[0]], then the loop over the other gaps.
prefix_sum(gaps) == prefix_sum_range(gaps, 2, Len(gaps), <<gaps[1]>>)

-----------------------------------------------------------------------------
(* VBEPostings.                                                            *)

\* The 7-bit groups of number, most significant first: the loop of
\* vb_encode_number inserts number & 0x7F at the front and shifts by 7.
RECURSIVE vb_groups(_)
vb_groups(number) ==
    IF number < 128 THEN <<number % 128>>
    ELSE vb_groups(number \div 128) \o <<number % 128>>

\* vb_encode_number with the shift off by one bit: number >> 8.
RECURSIVE vb_groups_shift8(_)
vb_groups_shift8(number) ==
    IF number < 128 THEN <<number % 128>>
    ELSE vb_groups_shift8(number \div 256) \o <<number % 128>>

vb_encode_number_shift8(number) ==
    LET bytes == vb_groups_shift8(number)
        n     == Len(bytes)
    IN  [bytes EXCEPT ![n] = IF bytes[n] < 128 THEN bytes[n] + 128 ELSE bytes[n]]

\* vb_encode_number with the terminator bit on the first byte: bytes[0] |= 0x80.
vb_encode_number_first_byte(number) ==
    LET bytes == vb_groups(number)
    IN  [bytes EXCEPT ![1] = IF bytes[1] < 128 THEN bytes[1] + 128 ELSE bytes[1]]

\* bytes[-1] |= 0x80
vb_encode_number(number) ==
    LET bytes == vb_groups(number)
        n     == Len(bytes)
    IN  [bytes EXCEPT ![n] = IF bytes[n] < 128 THEN bytes[n] + 128 ELSE bytes[n]]

\* The loop "for number in list_of_numbers[lo..hi]: bytestream.extend(...)",
\* run as its two halves one after the other.
RECURSIVE vb_encode_range(_, _, _, _)
vb_encode_range(list_of_numbers, lo, hi, bytestream) ==
    IF Len(bytestream) >= 0 /\ lo > hi THEN bytestream
    ELSE IF lo = hi THEN bytestream \o vb_encode_number(list_of_numbers[lo])
    ELSE LET mid == (lo + hi) \div 2
         IN  vb_encode_range(list_of_numbers, mid + 1, hi,
                             vb_encode_range(list_of_numbers, lo, mid, bytestream))

vb_encode(list_of_numbers) ==
    vb_encode_range(list_of_numbers, 1, Len(list_of_numbers), <<>>)

VBEPostings_encode(pl) == vb_encode(gap_based_list(pl))

\* One iteration of the loop of vb_decode on state st = [n, numbers].
vb_decode_byte(st, byte) ==
    IF byte < 128
    THEN [n |-> 128 * st.n + byte, numbers |-> st.numbers]
    ELSE [n |-> 0, numbers |-> Append(st.numbers, 128 * st.n + byte - 128)]

\* The loop "for byte in encoded_bytestream[lo..hi]", run as its two halves
\* one after the other.
RECURSIVE vb_decode_range(_, _, _, _)
vb_decode_range(bs, lo, hi, st) ==
    IF st.n >= 0 /\ lo > hi THEN st
    ELSE IF lo = hi THEN vb_decode_byte(st, bs[lo])
    ELSE LET mid == (lo + hi) \div 2
         IN  vb_decode_range(bs, mid + 1, hi, vb_decode_range(bs, lo, mid, st))

vb_decode(encoded_bytestream) ==
    vb_decode_range(encoded_bytestream, 1, Len(encoded_bytestream),
                    [n |-> 0, numbers |-> <<>>]).numbers

VBEPostings_decode(bs) == prefix_sum(vb_decode(bs))

-----------------------------------------------------------------------------
(* Simple8bPostings.                                                       *)

\* (bits_per_integer, integers_coded), selector s at position s + 1.
SELECTOR_TABLE ==
    << <<0, 240>>, <<0, 120>>, <<1, 60>>, <<2, 30>>, <<3, 20>>, <<4, 15>>,
       <<5, 12>>, <<6, 10>>, <<7, 8>>, <<8, 7>>, <<10, 6>>, <<12, 5>>,
       <<15, 4>>, <<20, 3>>, <<30, 2>>, <<60, 1>> >>

bits_per_integer(selector) == SELECTOR_TABLE[selector + 1][1]
integers_coded(selector) == SELECTOR_TABLE[selector + 1][2]

\* What find_selector returns when it raises ValueError.
NoSelector == -1

\* for selector in range(2, 16): the first selector that fits.
RECURSIVE find_selector_from(_, _)
find_selector_from(numbers, selector) ==
    IF selector > 15 THEN NoSelector
    ELSE IF /\ Len(numbers) >= integers_coded(selector)
            /\ \A k \in 1..integers_coded(selector) :
                   BelowPow2(numbers[k], bits_per_integer(selector))
         THEN selector
         ELSE find_selector_from(numbers, selector + 1)

\* find_selector without the len(numbers) >= 240 / >= 120 tests: all() over
\* the slice numbers[:240] is true of a shorter list of ones.
find_selector_no_len(numbers) ==
    IF \A k \in 1..240 : k > Len(numbers) \/ numbers[k] = 1 THEN 0
    ELSE IF \A k \in 1..120 : k > Len(numbers) \/ numbers[k] = 1 THEN 1
    ELSE find_selector_from(numbers, 2)

\* find_selector with the two run tests in the other order.
find_selector_120_first(numbers) ==
    IF Len(numbers) >= 120 /\ \A k \in 1..120 : numbers[k] = 1 THEN 1
    ELSE IF Len(numbers) >= 240 /\ \A k \in 1..240 : numbers[k] = 1 THEN 0
    ELSE find_selector_from(numbers, 2)

find_selector(numbers) ==
    IF Len(numbers) >= 240 /\ \A k \in 1..240 : numbers[k] = 1 THEN 0
    ELSE IF Len(numbers) >= 120 /\ \A k \in 1..120 : numbers[k] = 1 THEN 1
    ELSE find_selector_from(numbers, 2)

\* The 8 bytes of one word: the selector alone for selectors 0 and 1, else
\* encoded = selector | (list_of_numbers[i + j] << (4 + bits * j)) for each j.
simple8b_word(list_of_numbers, i, selector) ==
    LET bits  == bits_per_integer(selector)
        count == integers_coded(selector)
        encoded_bits == [p \in 0..63 |->
            IF selector = 0 \/ selector = 1 THEN NumBit(selector, p)
            ELSE IF \/ NumBit(selector, p) = 1
                    \/ \E j \in 0..(count - 1) :
                          NumBit(list_of_numbers[i + j + 1], p - (4 + bits * j)) = 1
                 THEN 1 ELSE 0]
    IN  to_bytes_big8(encoded_bits)

\* How far one word moves i.
simple8b_advance(selector) ==
    IF selector = 0 THEN 240
    ELSE IF selector = 1 THEN 120
    ELSE integers_coded(selector)

\* The while loop of simple8b_encode from position i (counted from 0).
RECURSIVE simple8b_encode_from(_, _, _)
simple8b_encode_from(list_of_numbers, i, bytestream) ==
    IF i >= Len(list_of_numbers) THEN [raised |-> FALSE, bytes |-> bytestream]
    ELSE LET selector == find_selector(Drop(list_of_numbers, i))
         IN  IF selector = NoSelector
             THEN [raised |-> TRUE, bytes |-> bytestream]
             ELSE simple8b_encode_from(
                      list_of_numbers, i + simple8b_advance(selector),
                      bytestream \o simple8b_word(list_of_numbers, i, selector))

simple8b_encode(list_of_numbers) == simple8b_encode_from(list_of_numbers, 0, <<>>)

Simple8bPostings_encode(pl) == simple8b_encode(gap_based_list(pl))

\* (block >> shift) & ((1 << bits) - 1), summed bit by bit from bit t up.
RECURSIVE block_field(_, _, _, _)
block_field(word, shift, bits, t) ==
    IF t >= bits THEN 0
    ELSE (IF BlockBit(word, shift + t) = 0 THEN 0 ELSE 2^t)
         + block_field(word, shift, bits, t + 1)

\* The integers one word decodes to.
simple8b_decode_word(word) ==
    LET selector == word[8] % 16
        bits     == bits_per_integer(selector)
        count    == integers_coded(selector)
    IN  IF selector = 0 THEN Rep(1, 240)
        ELSE IF selector = 1 THEN Rep(1, 120)
        ELSE [j \in 1..count |-> block_field(word, 4 + bits * (j - 1), bits, 0)]

RECURSIVE simple8b_decode_from(_, _, _)
simple8b_decode_from(bs, i, out) ==
    IF i >= Len(bs) THEN out
    ELSE simple8b_decode_from(bs, i + 8,
             out \o simple8b_decode_word(SubSeq(bs, i + 1, i + 8)))

simple8b_decode(encoded_bytestream) == simple8b_decode_from(encoded_bytestream, 0, <<>>)

Simple8bPostings_decode(bs) == prefix_sum(simple8b_decode(bs))

-----------------------------------------------------------------------------
(* The codec run: compression.py's __main__ encodes a postings list with   *)
(* one Postings class and decodes the result.                              *)

\* Bounds of the codec inputs.
MaxLen == 3        \* longest list enumerated gap by gap
RunSlack == 1      \* run lengths within RunSlack of a selector's count

\* Gaps at the edges of the byte and bit widths of the codecs.
GapValues == {1, 3, 127, 128, 4096, 2345284, 2^30}

RECURSIVE SumTo(_, _)
SumTo(gaps, i) == IF i = 0 THEN 0 ELSE SumTo(gaps, i - 1) + gaps[i]

\* The strictly ascending list whose gap sequence is gaps.
PostingsOf(gaps) == [i \in 1..Len(gaps) |-> SumTo(gaps, i)]

\* Gap sequences of a valid postings list: the first gap >= 0, the others
\* >= 1; at most one gap of 2^30 keeps the postings below 2^31.
ShortGaps ==
    { g \in UNION { [1..n -> GapValues \cup {0}] : n \in 1..MaxLen } :
        /\ \A k \in 2..Len(g) : g[k] >= 1
        /\ Cardinality({k \in 1..Len(g) : g[k] >= 2^30}) <= 1 }

\* A value that needs exactly the bits of the selector (31 bits for the
\* 60-bit selector, 1 for the run selectors).
RunValue(selector) ==
    LET bits == bits_per_integer(selector)
    IN  IF bits = 0 THEN 1
        ELSE IF bits <= 29 THEN 2^bits - 1
        ELSE IF bits = 30 THEN 2^29
        ELSE 2^30

RunLengths(selector) ==
    LET count == integers_coded(selector)
    IN  { n \in (count - RunSlack)..(count + RunSlack) : n >= 0 }
        \cup (IF selector = 0 THEN {240 + 120, 240 + 120 + 1} ELSE {})

\* The postings whose gaps are pre, then n gaps of v, then suf (pre and suf
\* of length at most 1).
RunPostings(pre, v, n, suf) ==
    LET base == IF pre = <<>> THEN 0 ELSE pre[1]
    IN  [i \in 1..(Len(pre) + n + Len(suf)) |->
            IF i <= Len(pre) THEN base
            ELSE IF i <= Len(pre) + n THEN base + v * (i - Len(pre))
            ELSE base + v * n + suf[1]]

\* A run of one value around a selector's count, after an optional first
\* posting and before an optional last gap; the postings stay below 2^31.
RunInputs ==
    UNION { { RunPostings(pre, RunValue(sel), n, suf) :
                n \in { m \in RunLengths(sel) :
                          m = 0 \/ RunValue(sel) <= 2147483000 \div m },
                pre \in {<<>>, <<0>>, <<1>>, <<5>>},
                suf \in {<<>>, <<1>>, <<2>>} } : sel \in 0..15 }
    \ {<<>>}

CodecInputs ==
    { PostingsOf(g) : g \in ShortGaps }
    \cup RunInputs
    \cup {<<34, 67, 89, 454>>, <<34, 67, 89, 454, 2345738>>}

InitCodec ==
    /\ MergeIdle /\ InvertIdle /\ BsbiIdle
    /\ postings_list \in CodecInputs
    /\ platform = [itemsize |-> 0, byteorder |-> "unset"]
    /\ codec = "none"
    /\ encoded = <<>>
    /\ decoded = <<>>
    /\ cpc = "start"

\* Postings.encode(postings_list) for StandardPostings, on one platform.
StandardEncode ==
    /\ cpc = "start"
    /\ \E pf \in Platforms :
          /\ platform' = pf
          /\ encoded' = StandardPostings_encode(pf, postings_list)
    /\ codec' = "Standard"
    /\ cpc' = "encoded"
    /\ UNCHANGED <<postings_list, decoded, mergeVars, invertVars, bsbiVars>>

VBEEncode ==
    /\ cpc = "start"
    /\ encoded' = VBEPostings_encode(postings_list)
    /\ codec' = "VBE"
    /\ cpc' = "encoded"
    /\ UNCHANGED <<postings_list, platform, decoded, mergeVars, invertVars, bsbiVars>>

Simple8bEncode ==
    /\ cpc = "start"
    /\ LET r == Simple8bPostings_encode(postings_list)
       IN  /\ encoded' = r.bytes
           /\ cpc' = IF r.raised THEN "raised" ELSE "encoded"
    /\ codec' = "Simple8b"
    /\ UNCHANGED <<postings_list, platform, decoded, mergeVars, invertVars, bsbiVars>>

StandardDecode ==
    /\ cpc = "encoded" /\ codec = "Standard"
    /\ decoded' = StandardPostings_decode(platform, encoded)
    /\ cpc' = "decoded"
    /\ UNCHANGED <<postings_list, platform, codec, encoded, mergeVars, invertVars, bsbiVars>>

VBEDecode ==
    /\ cpc = "encoded" /\ codec = "VBE"
    /\ decoded' = VBEPostings_decode(encoded)
    /\ cpc' = "decoded"
    /\ UNCHANGED <<postings_list, platform, codec, encoded, mergeVars, invertVars, bsbiVars>>

Simple8bDecode ==
    /\ cpc = "encoded" /\ codec = "Simple8b"
    /\ decoded' = Simple8bPostings_decode(encoded)
    /\ cpc' = "decoded"
    /\ UNCHANGED <<postings_list, platform, codec, encoded, mergeVars, invertVars, bsbiVars>>

NextCodec ==
    \/ StandardEncode \/ VBEEncode \/ Simple8bEncode
    \/ StandardDecode \/ VBEDecode \/ Simple8bDecode

SpecCodec == InitCodec /\ [][NextCodec]_vars

-----------------------------------------------------------------------------
(* Properties of the codecs.                                               *)

\* The gap sequence of a postings list, position by position.
GapsOf(pl) == [i \in 1..Len(pl) |-> IF i = 1 THEN pl[1] ELSE pl[i] - pl[i - 1]]

\* The selector of word w (from 1) of a Simple-8b byte stream: the low 4
\* bits of the word's last byte.
WordSelector(bs, w) == bs[8 * w] % 16

\* The number of gaps coded by the words before word w.
RECURSIVE WordStart(_, _)
WordStart(bs, w) ==
    IF w = 1 THEN 0
    ELSE WordStart(bs, w - 1) + integers_coded(WordSelector(bs, w - 1))

\* The selector the rule of the specification picks for gaps g at position i.
AllOnes(g, i, n) == Len(g) - i >= n /\ \A k \in 1..n : g[i + k] = 1
FitsSelector(g, i, sel) ==
    /\ Len(g) - i >= integers_coded(sel)
    /\ \A k \in 1..integers_coded(sel) : BelowPow2(g[i + k], bits_per_integer(sel))
SelectorAsSpecified(g, i, sel) ==
    /\ sel \in 0..15
    /\ (sel = 0) <=> AllOnes(g, i, 240)
    /\ (sel = 1) <=> (~AllOnes(g, i, 240) /\ AllOnes(g, i, 120))
    /\ sel >= 2 => /\ FitsSelector(g, i, sel)
                   /\ \A t \in 2..(sel - 1) : ~FitsSelector(g, i, t)

\* C5: Simple8bGap round-trip: for a non-empty strictly ascending list with
\* gaps below 2^60 the encoder does not raise and decode(encode(xs)) = xs,
\* with exactly len(xs) values and no padding.
C5_Simple8bRoundTrip ==
    codec = "Simple8b" =>
        /\ cpc # "raised"
        /\ cpc = "decoded" => decoded = postings_list

\* C5 witness: a run of 240 gaps of 1 followed by one more gap (a tail
\* shorter than any run selector) has been encoded and decoded.
C5_Witness ==
    /\ codec = "Simple8b" /\ cpc = "decoded"
    /\ Len(postings_list) = 241
    /\ \A k \in 2..241 : postings_list[k] - postings_list[k - 1] = 1

\* C6: VByteGap round-trip: encode variable-byte encodes the gap sequence
\* g[0] = xs[0], g[i] = xs[i] - xs[i-1], and decode prefix-sums the decoded
\* gaps back to xs; [34, 67, 89, 454, 2345738] has gaps
\* [34, 33, 22, 365, 2345284].
C6_VByteRoundTrip ==
    codec = "VBE" =>
        /\ cpc \in {"encoded", "decoded"} =>
              /\ vb_decode(encoded) = GapsOf(postings_list)
              /\ postings_list = <<34, 67, 89, 454, 2345738>> =>
                    vb_decode(encoded) = <<34, 33, 22, 365, 2345284>>
        /\ cpc = "decoded" => decoded = postings_list

\* C6 witness: the example list has been encoded and decoded by VBEPostings.
C6_Witness ==
    /\ codec = "VBE" /\ cpc = "decoded"
    /\ postings_list = <<34, 67, 89, 454, 2345738>>

\* The number of 7-bit groups of n (n below 2^31).
GroupCount(n) ==
    IF n < 128 THEN 1
    ELSE IF n < 16384 THEN 2
    ELSE IF n < 2097152 THEN 3
    ELSE IF n < 268435456 THEN 4
    ELSE 5

\* The variable-byte layout of n: group j of GroupCount(n), most significant
\* first, the last one with the high bit set.
VByteLayout(n) ==
    LET k == GroupCount(n)
    IN  [j \in 1..k |->
            ((n \div (128 ^ (k - j))) % 128) + (IF j = k THEN 128 ELSE 0)]

\* The positions of the bytes of bs with the high bit set.
Terminators(bs) == {p \in 1..Len(bs) : bs[p] >= 128}

\* The k bytes of bs that end at terminator p are one number's bytes: they
\* start the stream or follow a terminator, and hold no other terminator.
IsNumberAt(bs, p, k) ==
    /\ p - k >= 0
    /\ p - k >= 1 => bs[p - k] >= 128
    /\ \A q \in (p - k + 1)..(p - 1) : bs[q] < 128

\* C11: variable-byte layout: each number is emitted as its 7-bit groups,
\* most significant first, only the last byte with the high bit set, so a
\* number in [0, 127] is one byte with the high bit set; and vb_decode
\* splits the concatenation back into the same numbers.
C11_VByteLayout ==
    (codec = "VBE" /\ cpc \in {"encoded", "decoded"}) =>
        LET gaps == GapsOf(postings_list)
            ends == Terminators(encoded)
        IN  /\ Cardinality(ends) = Len(gaps)
            /\ encoded # <<>> => Len(encoded) \in ends
            /\ \A p \in ends :
                   LET i == Cardinality({q \in ends : q <= p})
                       k == GroupCount(gaps[i])
                   IN  /\ IsNumberAt(encoded, p, k)
                       /\ SubSeq(encoded, p - k + 1, p) = VByteLayout(gaps[i])
                       /\ gaps[i] <= 127 =>
                              /\ k = 1
                              /\ encoded[p] = gaps[i] + 128
            /\ cpc = "decoded" =>
                   /\ Len(decoded) = Cardinality(ends)
                   /\ GapsOf(decoded) = gaps

\* C11 witness: numbers of one, two and five bytes were encoded and decoded:
\* [0, 128, 128 + 2^30] has the gaps 0, 128 and 2^30.
C11_Witness ==
    /\ codec = "VBE" /\ cpc = "decoded"
    /\ postings_list = <<0, 128, 128 + 2^30>>
    /\ encoded = <<128, 1, 128, 4, 0, 0, 0, 128>>

\* C7: Raw32 stores each integer as exactly 4 bytes, little-endian, so a list
\* of n integers encodes to 4*n bytes (16 bytes for [34, 67, 89, 454]).
C7_Raw32FourBytesLittleEndian ==
    (codec = "Standard" /\ cpc \in {"encoded", "decoded"}) =>
        /\ Len(encoded) = 4 * Len(postings_list)
        /\ \A k \in 1..Len(postings_list) : \A b \in 1..4 :
              encoded[4 * (k - 1) + b] = (postings_list[k] \div (256^(b - 1))) % 256

\* C8: at every word boundary the encoder picks selector 0 iff at least 240
\* gaps remain and the next 240 are 1; else 1 iff at least 120 remain and the
\* next 120 are 1; otherwise the smallest selector >= 2 whose count of gaps
\* exist and fit its bits.  240 ones followed by 120 ones encode to exactly
\* two words, with selectors 0 and 1.
C8_SelectorChoice ==
    (codec = "Simple8b" /\ cpc \in {"encoded", "decoded"}) =>
        LET g == GapsOf(postings_list)
            words == Len(encoded) \div 8
        IN  /\ Len(encoded) = 8 * words
            /\ \A w \in 1..words :
                  SelectorAsSpecified(g, WordStart(encoded, w), WordSelector(encoded, w))
            /\ WordStart(encoded, words + 1) = Len(g)
            /\ g = Rep(1, 240 + 120) =>
                  /\ words = 2
                  /\ WordSelector(encoded, 1) = 0
                  /\ WordSelector(encoded, 2) = 1

\* C8 witness: the gaps 240 ones then 120 ones (the list 1..360) have been
\* encoded.
C8_Witness ==
    /\ codec = "Simple8b" /\ cpc = "encoded"
    /\ GapsOf(postings_list) = Rep(1, 240 + 120)

-----------------------------------------------------------------------------
(* Sorted-list set operations (util.py): two-pointer sweeps over strictly  *)
(* ascending lists.                                                        *)

RECURSIVE sort_union_from(_, _, _, _)
sort_union_from(A, B, i, j) ==
    IF i > Len(A) THEN SubSeq(B, j, Len(B))
    ELSE IF j > Len(B) THEN SubSeq(A, i, Len(A))
    ELSE IF A[i] = B[j] THEN <<A[i]>> \o sort_union_from(A, B, i + 1, j + 1)
    ELSE IF A[i] < B[j] THEN <<A[i]>> \o sort_union_from(A, B, i + 1, j)
    ELSE <<B[j]>> \o sort_union_from(A, B, i, j + 1)

\* Every value present in either list, deduplicated.
sort_union_list(A, B) == sort_union_from(A, B, 1, 1)

RECURSIVE sort_intersect_from(_, _, _, _)
sort_intersect_from(A, B, i, j) ==
    IF i > Len(A) \/ j > Len(B) THEN <<>>
    ELSE IF A[i] = B[j] THEN <<A[i]>> \o sort_intersect_from(A, B, i + 1, j + 1)
    ELSE IF A[i] < B[j] THEN sort_intersect_from(A, B, i + 1, j)
    ELSE sort_intersect_from(A, B, i, j + 1)

\* Every value present in both lists.
sort_intersect_list(A, B) == sort_intersect_from(A, B, 1, 1)

RECURSIVE sort_diff_from(_, _, _, _)
sort_diff_from(A, B, i, j) ==
    IF i > Len(A) THEN <<>>
    ELSE IF j > Len(B) THEN SubSeq(A, i, Len(A))
    ELSE IF A[i] = B[j] THEN sort_diff_from(A, B, i + 1, j + 1)
    ELSE IF A[i] < B[j] THEN <<A[i]>> \o sort_diff_from(A, B, i + 1, j)
    ELSE sort_diff_from(A, B, i, j + 1)

\* A DIFF B: every value present in A but not in B.
sort_diff_list(A, B) == sort_diff_from(A, B, 1, 1)

-----------------------------------------------------------------------------
(* BSBIIndex.merge_index.  A reader is the sequence of records             *)
(* <<term_id, postings_list>> its iteration yields; the writer is the      *)
(* sequence of records appended to it.  Reader indexes count from 0, as    *)
(* enumerate does.                                                         *)

\* Python's order on lists of integers.
ListLess(x, y) ==
    \E k \in 1..(Len(x) + 1) :
        /\ \A m \in 1..(k - 1) : m <= Len(y) /\ x[m] = y[m]
        /\ \/ k > Len(x) /\ k <= Len(y)
           \/ k <= Len(x) /\ k <= Len(y) /\ x[k] < y[k]

\* Python's order on the heap's tuples (term_id, i, postings_list).
HeapLess(a, b) ==
    \/ a[1] < b[1]
    \/ a[1] = b[1] /\ a[2] < b[2]
    \/ a[1] = b[1] /\ a[2] = b[2] /\ ListLess(a[3], b[3])

\* heapq.heappush: the heap is kept as the list of its entries.
heappush(heap, entry) == Append(heap, entry)

\* min_heap.pop() in place of heapq.heappop(min_heap): the last entry.
heappop_last(heap) ==
    [entry |-> heap[Len(heap)], heap |-> SubSeq(heap, 1, Len(heap) - 1)]

\* heapq.heappop: the smallest entry, and the heap without it.
heappop(heap) ==
    LET k == CHOOSE k \in 1..Len(heap) :
                 \A j \in 1..Len(heap) : ~HeapLess(heap[j], heap[k])
    IN  [entry |-> heap[k],
         heap  |-> SubSeq(heap, 1, k - 1) \o SubSeq(heap, k + 1, Len(heap))]

\* The locals of merge_index before its first loop; cursor[r] counts the
\* records reader r has yielded, appended is what the writer received.
merge_start(readers) ==
    [i |-> 0,
     cursor |-> [r \in 1..Len(readers) |-> 0],
     min_heap |-> <<>>,
     current_term_id |-> -1,
     current_postings_list |-> <<>>,
     appended |-> <<>>]

\* One iteration of "for i, index in enumerate(indices)": push the reader's
\* first record, or skip an empty reader.
merge_init_reader(readers, ms) ==
    LET r == ms.i + 1
    IN  IF ms.cursor[r] < Len(readers[r])
        THEN LET rec == readers[r][ms.cursor[r] + 1]
             IN  [ms EXCEPT !.i = ms.i + 1,
                            !.cursor[r] = ms.cursor[r] + 1,
                            !.min_heap = heappush(ms.min_heap, <<rec[1], ms.i, rec[2]>>)]
        ELSE [ms EXCEPT !.i = ms.i + 1]

\* merge_iteration without "current_postings_list = []" after the append.
merge_iteration_no_reset(readers, ms) ==
    LET popped == heappop(ms.min_heap)
        term_id == popped.entry[1]
        i == popped.entry[2]
        postings == popped.entry[3]
        write == ms.current_term_id # -1 /\ term_id # ms.current_term_id
        appended == IF write
                    THEN Append(ms.appended,
                                <<ms.current_term_id, ms.current_postings_list>>)
                    ELSE ms.appended
        kept == ms.current_postings_list
        merged == IF kept = <<>> THEN postings
                  ELSE sort_union_list(kept, postings)
        r == i + 1
        more == ms.cursor[r] < Len(readers[r])
        rec == readers[r][ms.cursor[r] + 1]
    IN  [i |-> ms.i,
         cursor |-> IF more THEN [ms.cursor EXCEPT ![r] = @ + 1] ELSE ms.cursor,
         min_heap |-> IF more THEN heappush(popped.heap, <<rec[1], i, rec[2]>>)
                      ELSE popped.heap,
         current_term_id |-> term_id,
         current_postings_list |-> merged,
         appended |-> appended]

\* One iteration of "while min_heap".
merge_iteration(readers, ms) ==
    LET popped == heappop(ms.min_heap)
        term_id == popped.entry[1]
        i == popped.entry[2]
        postings == popped.entry[3]
        write == ms.current_term_id # -1 /\ term_id # ms.current_term_id
        appended == IF write
                    THEN Append(ms.appended,
                                <<ms.current_term_id, ms.current_postings_list>>)
                    ELSE ms.appended
        kept == IF write THEN <<>> ELSE ms.current_postings_list
        merged == IF kept = <<>> THEN postings
                  ELSE sort_union_list(kept, postings)
        r == i + 1
        more == ms.cursor[r] < Len(readers[r])
        rec == readers[r][ms.cursor[r] + 1]
    IN  [i |-> ms.i,
         cursor |-> IF more THEN [ms.cursor EXCEPT ![r] = @ + 1] ELSE ms.cursor,
         min_heap |-> IF more THEN heappush(popped.heap, <<rec[1], i, rec[2]>>)
                      ELSE popped.heap,
         current_term_id |-> term_id,
         current_postings_list |-> merged,
         appended |-> appended]

\* merge_index without the write after the loop.
merge_flush_skipped(ms) == ms

\* After the loop: write what is left.
merge_flush(ms) ==
    IF ms.current_postings_list # <<>>
    THEN [ms EXCEPT !.appended =
             Append(@, <<ms.current_term_id, ms.current_postings_list>>)]
    ELSE ms

\* Bounds of the merge inputs.
MaxReaders == 2

\* Python's sorted() on a set of integers: the smallest first.
RECURSIVE sorted(_)
sorted(S) ==
    IF S = {} THEN <<>>
    ELSE LET m == CHOOSE x \in S : \A y \in S : x <= y
         IN  <<m>> \o sorted(S \ {m})

MergeTermIds == {0, 5}
MergePostings == {<<1, 3>>, <<3, 7>>, <<2>>}

\* A reader yields strictly ascending term ids with non-empty strictly
\* ascending postings.
ReaderContents ==
    UNION { { [k \in 1..Cardinality(T) |-> <<sorted(T)[k], f[sorted(T)[k]]>>] :
                f \in [T -> MergePostings] } : T \in SUBSET MergeTermIds }

\* The two intermediate indices of the specification's merge scenario.
MergeExample ==
    << << <<5, <<1, 3>>>>, <<9, <<2>>>> >>, << <<5, <<3, 7>>>>, <<7, <<4>>>> >> >>

MergeInputs ==
    UNION { [1..n -> ReaderContents] : n \in 0..MaxReaders } \cup {MergeExample}

InitMerge ==
    /\ CodecIdle /\ InvertIdle /\ BsbiIdle
    /\ indices \in MergeInputs
    /\ merge = merge_start(indices)
    /\ mpc = "merge"

\* The loop that fills the heap, one reader per step.
MergeHeapInit ==
    /\ mpc = "merge" /\ merge.i < Len(indices)
    /\ merge' = merge_init_reader(indices, merge)
    /\ UNCHANGED <<indices, mpc, codecVars, invertVars, bsbiVars>>

\* One iteration of the merge loop.
MergeIteration ==
    /\ mpc = "merge" /\ merge.i = Len(indices) /\ merge.min_heap # <<>>
    /\ merge' = merge_iteration(indices, merge)
    /\ UNCHANGED <<indices, mpc, codecVars, invertVars, bsbiVars>>

\* The heap is empty: the rest is written and merge_index returns.
MergeFlush ==
    /\ mpc = "merge" /\ merge.i = Len(indices) /\ merge.min_heap = <<>>
    /\ merge' = merge_flush(merge)
    /\ mpc' = "done"
    /\ UNCHANGED <<indices, codecVars, invertVars, bsbiVars>>

NextMerge == MergeHeapInit \/ MergeIteration \/ MergeFlush

SpecMerge == InitMerge /\ [][NextMerge]_vars

\* merge_index is one sequential call: once entered, its next statement is
\* executed.
SpecMergeFair == SpecMerge /\ WF_vars(NextMerge)

\* The values of a sequence.
Range(q) == {q[k] : k \in 1..Len(q)}

StrictlyAscending(q) == \A k \in 1..(Len(q) - 1) : q[k] < q[k + 1]

\* C2: for readers yielding strictly ascending term ids with non-empty
\* strictly ascending postings, the writer receives strictly ascending term
\* ids, one record per distinct term id of the inputs, and the postings of
\* each term are the sorted duplicate-free union of its postings across the
\* inputs; A {5:[1,3], 9:[2]} and B {5:[3,7], 7:[4]} merge to
\* {5:[1,3,7], 7:[4], 9:[2]}.
C2_MergeUnion ==
    mpc # "idle" =>
        LET out == merge.appended
            records == UNION { Range(indices[r]) : r \in 1..Len(indices) }
        IN  /\ StrictlyAscending([k \in 1..Len(out) |-> out[k][1]])
            /\ mpc = "done" =>
                  /\ {out[k][1] : k \in 1..Len(out)} = {rec[1] : rec \in records}
                  /\ \A k \in 1..Len(out) :
                        /\ StrictlyAscending(out[k][2])
                        /\ Range(out[k][2]) =
                             UNION { Range(rec[2]) :
                                       rec \in {x \in records : x[1] = out[k][1]} }
                  /\ indices = MergeExample =>
                        out = << <<5, <<1, 3, 7>>>>, <<7, <<4>>>>, <<9, <<2>>>> >>

\* C2 witness: the two indices of the merge scenario have been merged.
C2_Witness == mpc = "done" /\ indices = MergeExample /\ Len(merge.appended) = 3

\* The key (term_id, reader_index) of a is below that of b.
KeyLess(a, b) == a[1] < b[1] \/ (a[1] = b[1] /\ a[2] < b[2])

\* Every heap entry is the record its reader yielded last, under the
\* reader's index, and no two entries are of the same reader.
OneEntryPerReader ==
    LET heap == merge.min_heap
    IN  /\ Len(heap) <= Len(indices)
        /\ \A j \in 1..Len(heap) :
               LET r == heap[j][2] + 1
               IN  /\ r \in 1..Len(indices)
                   /\ merge.cursor[r] \in 1..Len(indices[r])
                   /\ indices[r][merge.cursor[r]] = <<heap[j][1], heap[j][3]>>
        /\ \A j, k \in 1..Len(heap) :
               j # k => /\ heap[j][2] # heap[k][2]
                        /\ KeyLess(heap[j], heap[k]) \/ KeyLess(heap[k], heap[j])

\* An iteration of the merge loop pops one entry, whose key is below the
\* key of every other entry, and pushes at most one entry, of the same
\* reader.
PopsLeastKey ==
    LET before == Range(merge.min_heap)
        after  == Range(merge'.min_heap)
        popped == before \ after
        pushed == after \ before
    IN  /\ Cardinality(popped) = 1
        /\ Cardinality(pushed) <= 1
        /\ \A e \in popped :
               /\ merge'.current_term_id = e[1]
               /\ \A f \in before \ {e} : KeyLess(e, f)
               /\ \A f \in pushed : f[2] = e[2]

\* C13: at every point of merge_index the heap holds at most one entry per
\* reader index, so the keys (term_id, reader_index) are distinct and the
\* comparison is decided before the postings list; entries of equal term_id
\* are popped in ascending reader_index order, and a reader's next record is
\* pushed only when its entry is popped.
C13_HeapOneEntryPerReader ==
    /\ [](mpc # "idle" => OneEntryPerReader)
    /\ [][(mpc = "merge" /\ merge.i = Len(indices) /\ merge.min_heap # <<>>)
              => PopsLeastKey]_vars

\* The loop has run and the heap holds the same term_id from two readers.
C13_Witness ==
    /\ mpc = "merge"
    /\ merge.current_term_id # -1
    /\ Len(merge.min_heap) = 2
    /\ merge.min_heap[1][1] = merge.min_heap[2][1]

\* The records readers r.. have not yielded yet.
RECURSIVE Unread(_)
Unread(r) ==
    IF r > Len(indices) THEN 0
    ELSE (Len(indices[r]) - merge.cursor[r]) + Unread(r + 1)

\* The records of all readers.
RECURSIVE RecordCount(_)
RecordCount(r) ==
    IF r > Len(indices) THEN 0 ELSE Len(indices[r]) + RecordCount(r + 1)

\* The records not popped yet: those in the heap and those not read.
Unpopped == Len(merge.min_heap) + Unread(1)

\* merge_index has returned: nothing is left in the readers, the heap or
\* the accumulated list, and the writer received every term.
MergeReturned ==
    /\ merge.min_heap = <<>>
    /\ \A r \in 1..Len(indices) : merge.cursor[r] = Len(indices[r])
    /\ {merge.appended[k][1] : k \in 1..Len(merge.appended)} =
           UNION { {indices[r][k][1] : k \in 1..Len(indices[r])} :
                     r \in 1..Len(indices) }
    /\ RecordCount(1) > 0 =>
           merge.appended[Len(merge.appended)] =
               <<merge.current_term_id, merge.current_postings_list>>
    /\ RecordCount(1) = 0 => merge.appended = <<>>

\* C14: merge_index terminates for any finite readers; every record is read
\* from its reader once and popped once (each iteration pops one record
\* and reads at most one, of one reader); every popped term reaches the
\* writer, the last one by the flush after the loop; with no readers or
\* only empty readers the writer receives no append.
C14_MergeTerminates ==
    /\ <>(mpc = "done")
    /\ [](mpc = "done" => MergeReturned)
    /\ [](mpc = "merge" => Unpopped >= 0)
    /\ [][(mpc = "merge" /\ merge.i = Len(indices) /\ merge.min_heap # <<>>) =>
              /\ Unpopped' = Unpopped - 1
              /\ \A r \in 1..Len(indices) :
                     merge'.cursor[r] \in {merge.cursor[r], merge.cursor[r] + 1}
              /\ Unread(1) - Unread(1)' \in {0, 1}]_vars

\* merge_index has returned for an empty reader and one with two records.
C14_Witness ==
    /\ mpc = "done"
    /\ Len(indices) = 2
    /\ indices[1] = <<>>
    /\ Len(indices[2]) = 2
    /\ Len(merge.appended) = 2

-----------------------------------------------------------------------------
(* BSBIIndex.write_to_index: block inversion.                              *)

\* One iteration of "for term_id, doc_id in td_pairs" on the dictionary
\* term_dict: term_id -> set of doc_ids.
term_dict_add(term_dict, pair) ==
    LET d == IF pair[1] \notin DOMAIN term_dict
             THEN term_dict @@ (pair[1] :> {})
             ELSE term_dict
    IN  [d EXCEPT ![pair[1]] = @ \cup {pair[2]}]

\* The first loop of write_to_index, from pair k on.
RECURSIVE term_dict_from(_, _, _)
term_dict_from(pairs, k, term_dict) ==
    IF k > Len(pairs) THEN term_dict
    ELSE term_dict_from(pairs, k + 1, term_dict_add(term_dict, pairs[k]))

\* The term ids of the pairs in the order of their first occurrence.
RECURSIVE first_occurrences(_, _, _)
first_occurrences(pairs, k, seen) ==
    IF k > Len(pairs) THEN seen
    ELSE first_occurrences(pairs, k + 1,
             IF pairs[k][1] \in Range(seen) THEN seen ELSE Append(seen, pairs[k][1]))

\* write_to_index iterating term_dict.keys() as they are, without sorted().
write_to_index_unsorted(pairs, appended) ==
    LET term_dict == term_dict_from(pairs, 1, <<>>)
        keys == first_occurrences(pairs, 1, <<>>)
    IN  appended \o [k \in 1..Len(keys) |-> <<keys[k], sorted(term_dict[keys[k]])>>]

\* write_to_index(td_pairs, index): what the writer has received after it,
\* having received appended before.
write_to_index(pairs, appended) ==
    LET term_dict == term_dict_from(pairs, 1, <<>>)
        keys == sorted(DOMAIN term_dict)
    IN  appended \o [k \in 1..Len(keys) |-> <<keys[k], sorted(term_dict[keys[k]])>>]

\* Bound of the inversion inputs.
MaxPairs == 3

InvertTermIds == {0, 3, 4}
InvertDocIds == {0, 1, 2}

InitInvert ==
    /\ CodecIdle /\ MergeIdle /\ BsbiIdle
    /\ td_pairs \in UNION { [1..n -> InvertTermIds \X InvertDocIds] : n \in 0..MaxPairs }
    /\ index = <<>>
    /\ wpc = "start"

WriteToIndex ==
    /\ wpc = "start"
    /\ index' = write_to_index(td_pairs, index)
    /\ wpc' = "done"
    /\ UNCHANGED <<td_pairs, codecVars, mergeVars, bsbiVars>>

NextInvert == WriteToIndex

SpecInvert == InitInvert /\ [][NextInvert]_vars

\* C10: for any list of (term_id, doc_id) pairs, with duplicates and in any
\* order, the writer receives one append per distinct term_id, in strictly
\* ascending term_id order, each with the strictly ascending duplicate-free
\* list of exactly the doc_ids paired with that term_id.
C10_BlockInversion ==
    wpc = "done" =>
        /\ StrictlyAscending([k \in 1..Len(index) |-> index[k][1]])
        /\ {index[k][1] : k \in 1..Len(index)} = {pr[1] : pr \in Range(td_pairs)}
        /\ \A k \in 1..Len(index) :
              /\ StrictlyAscending(index[k][2])
              /\ Range(index[k][2]) =
                   {pr[2] : pr \in {x \in Range(td_pairs) : x[1] = index[k][1]}}

\* C10 witness: pairs with a repeated pair and term ids out of order have
\* been inverted.
C10_Witness ==
    /\ wpc = "done"
    /\ td_pairs = << <<4, 1>>, <<0, 2>>, <<4, 1>> >>
    /\ index = << <<0, <<2>>>>, <<4, <<1>>>> >>

-----------------------------------------------------------------------------
(* IdMap (util.py): a bijection between strings and the ids 0, 1, 2, ...,  *)
(* kept as the sequence id_to_str.                                         *)

IdMap_new == <<>>

\* lookup_id without side effect: "s in id_map".
IdMap_contains(m, s) == s \in Range(m)

\* The id of a string the map holds.
IdMap_id(m, s) == (CHOOSE k \in 1..Len(m) : m[k] = s) - 1

\* id_map[s]: the id of s, the next free id for a new string ...
IdMap_get_id(m, s) == IF IdMap_contains(m, s) THEN IdMap_id(m, s) ELSE Len(m)

\* ... and the map after id_map[s], which interns a new string.
IdMap_intern(m, s) == IF IdMap_contains(m, s) THEN m ELSE Append(m, s)

\* id_map[i]: the string of an id.
IdMap_str(m, id) == m[id + 1]

-----------------------------------------------------------------------------
(* Index files (index.py).  An index file is its posting stream, its       *)
(* dictionary, a sequence of <<term_id, offset, length, count>>, and       *)
(* whether the writer was released, which writes the dictionary beside the *)
(* stream.                                                                 *)

Encode(encoding, pl) ==
    IF encoding = "VBE" THEN VBEPostings_encode(pl)
    ELSE Simple8bPostings_encode(pl).bytes

Decode(encoding, bs) ==
    IF encoding = "VBE" THEN VBEPostings_decode(bs)
    ELSE Simple8bPostings_decode(bs)

\* Entering an InvertedIndexWriter: the posting stream is created empty.
Writer_open(fs, name) ==
    [n \in DOMAIN fs \cup {name} |->
        IF n = name THEN [stream |-> <<>>, dict |-> <<>>, closed |-> FALSE]
        ELSE fs[n]]

\* InvertedIndexWriter.append(term_id, postings_list).
Writer_append(file, encoding, term_id, pl) ==
    LET bytes == Encode(encoding, pl)
    IN  [file EXCEPT !.stream = @ \o bytes,
                     !.dict = Append(@, <<term_id, Len(file.stream), Len(bytes), Len(pl)>>)]

\* The appends of records[k..] in order.
RECURSIVE Writer_append_all(_, _, _, _)
Writer_append_all(file, encoding, records, k) ==
    IF k > Len(records) THEN file
    ELSE Writer_append_all(
             Writer_append(file, encoding, records[k][1], records[k][2]),
             encoding, records, k + 1)

\* Leaving the writer's with block.
Writer_close(file) == [file EXCEPT !.closed = TRUE]

\* An InvertedIndexReader can be entered on a file whose dictionary exists.
Reader_can_open(fs, name) == name \in DOMAIN fs /\ fs[name].closed

\* The postings of one dictionary entry, decoded from the stream.
Reader_postings(file, encoding, entry) ==
    Decode(encoding, SubSeq(file.stream, entry[2] + 1, entry[2] + entry[3]))

\* What iterating the reader yields.
Reader_records(file, encoding) ==
    [k \in 1..Len(file.dict) |->
        <<file.dict[k][1], Reader_postings(file, encoding, file.dict[k])>>]

\* InvertedIndexReader.get_postings_list: empty for an absent term_id.
Reader_get_postings_list(file, encoding, term_id) ==
    IF \E k \in 1..Len(file.dict) : file.dict[k][1] = term_id
    THEN Reader_postings(file, encoding,
             file.dict[CHOOSE k \in 1..Len(file.dict) : file.dict[k][1] = term_id])
    ELSE <<>>

-----------------------------------------------------------------------------
(* BSBIIndex: construction, save, parsing_block, merge_index as a whole.   *)
(* Names of blocks and documents are strings, kept as sequences of digit   *)
(* characters; file names are a fixed string followed by such a name.      *)

IndexName == <<"main_index">>
TermsDict == <<"terms.dict">>
DocsDict == <<"docs.dict">>

\* 'intermediate_index_' + block_path
index_id(block_path) == <<"intermediate_index_">> \o block_path

\* BSBIIndex(data_path, output_path, postings_encoding).
BSBIIndex_new(postings_encoding) ==
    [term_id_map |-> IdMap_new,
     doc_id_map |-> IdMap_new,
     intermediate_indices |-> <<>>,
     postings_encoding |-> postings_encoding]

\* save(): both IdMaps are pickled into the output directory.
save(obj, fs) ==
    [n \in DOMAIN fs \cup {TermsDict, DocsDict} |->
        IF n = TermsDict THEN obj.term_id_map
        ELSE IF n = DocsDict THEN obj.doc_id_map
        ELSE fs[n]]

\* Python's sorted() on a set of strings: lexicographic by character.
RECURSIVE sorted_names(_)
sorted_names(S) ==
    IF S = {} THEN <<>>
    ELSE LET m == CHOOSE x \in S : \A y \in S \ {x} : ListLess(x, y)
         IN  <<m>> \o sorted_names(S \ {m})

\* The directory listing taken as it comes (here: backwards), not sorted.
block_paths_unsorted(coll) ==
    LET q == sorted_names(DOMAIN coll)
    IN  [k \in 1..Len(q) |-> q[Len(q) + 1 - k]]

\* sorted(next(os.walk(self.data_path))[1]): the blocks in processing order.
block_paths(coll) == sorted_names(DOMAIN coll)

\* The loop over the tokens of one document (already lower-cased, stopword
\* filtered and stemmed); st = [term_id_map, td_pairs].
RECURSIVE parse_tokens(_, _, _, _)
parse_tokens(tokens, k, doc_id, st) ==
    IF k > Len(tokens) THEN st
    ELSE parse_tokens(tokens, k + 1, doc_id,
             [term_id_map |-> IdMap_intern(st.term_id_map, tokens[k]),
              td_pairs |-> Append(st.td_pairs,
                               <<IdMap_get_id(st.term_id_map, tokens[k]), doc_id>>)])

\* The loop over the documents of a block; st = [term_id_map, doc_id_map,
\* td_pairs].
RECURSIVE parse_docs(_, _, _, _)
parse_docs(docs, names, k, st) ==
    IF k > Len(names) THEN st
    ELSE LET doc_name == names[k]
             doc_id == IdMap_get_id(st.doc_id_map, doc_name)
             t == parse_tokens(docs[doc_name], 1, doc_id,
                      [term_id_map |-> st.term_id_map, td_pairs |-> st.td_pairs])
         IN  parse_docs(docs, names, k + 1,
                 [term_id_map |-> t.term_id_map,
                  doc_id_map |-> IdMap_intern(st.doc_id_map, doc_name),
                  td_pairs |-> t.td_pairs])

\* parsing_block(block_path): the block's pairs and the IdMaps after it.
parsing_block(obj, docs) ==
    parse_docs(docs, sorted_names(DOMAIN docs), 1,
        [term_id_map |-> obj.term_id_map, doc_id_map |-> obj.doc_id_map,
         td_pairs |-> <<>>])

\* merge_index run from its first loop to its return.
RECURSIVE merge_heap_init_all(_, _)
merge_heap_init_all(readers, ms) ==
    IF ms.i >= Len(readers) THEN ms
    ELSE merge_heap_init_all(readers, merge_init_reader(readers, ms))

RECURSIVE merge_loop(_, _)
merge_loop(readers, ms) ==
    IF ms.min_heap = <<>> THEN ms
    ELSE merge_loop(readers, merge_iteration(readers, ms))

\* What merge_index(indices, merged_index) appends to merged_index.
merge_index(readers) ==
    merge_flush(merge_loop(readers,
                           merge_heap_init_all(readers, merge_start(readers)))).appended

-----------------------------------------------------------------------------
(* The collection and the queries.                                         *)

\* Bounds.
MaxBlocks == 2       \* blocks (sub-directories) of the collection
MaxOperators == 1    \* operators of a query

\* As strings "1" < "10" < "2"; as numbers 1 < 2 < 10.
BlockNames == {<<1>>, <<1, 0>>, <<2>>}

\* What a block may hold: document name -> the terms of the document.  A
\* document name may repeat in another block.
BlockChoices ==
    { <<>>,
      (<<1>> :> <<"alpha", "beta", "alpha">>) @@ (<<2>> :> <<"alpha">>),
      (<<2>> :> <<"gamma", "beta">>) @@ (<<3>> :> <<>>) @@ (<<4>> :> <<"beta">>) }

Collections ==
    UNION { [B -> BlockChoices] :
              B \in {X \in SUBSET BlockNames : Cardinality(X) <= MaxBlocks} }

QueryTerms == {"alpha", "beta", "zeta"}
Operators == {"AND", "OR", "DIFF"}

\* query_parser.special_tokens
special_tokens == Operators \cup {"(", ")"}

\* The postfix forms of the queries with n operators.
RECURSIVE PostfixQueries(_)
PostfixQueries(n) ==
    IF n = 0 THEN { <<t>> : t \in QueryTerms }
    ELSE UNION { { a \o b \o <<op>> :
                     a \in PostfixQueries(m), b \in PostfixQueries(n - 1 - m),
                     op \in Operators } : m \in 0..(n - 1) }

\* (alpha AND beta) DIFF gamma, and two more queries with two operators.
QueryExamples ==
    { <<"alpha", "beta", "AND", "gamma", "DIFF">>,
      <<"alpha", "zeta", "OR", "beta", "DIFF">>,
      <<"alpha", "beta", "gamma", "DIFF", "OR">> }

\* A parsed query: is_valid() and infix_to_postfix().  A query with a
\* stopword is invalid and its postfix form is never computed.
Queries ==
    [valid : {TRUE},
     postfix : UNION { PostfixQueries(n) : n \in 0..MaxOperators } \cup QueryExamples]
    \cup {[valid |-> FALSE, postfix |-> <<>>]}

-----------------------------------------------------------------------------
(* bsbi.py's __main__ constructs a BSBIIndex and runs start_indexing on an *)
(* empty output directory; search.py then constructs a BSBIIndex on the    *)
(* same directories and calls boolean_retrieve.                            *)

InitBsbi ==
    /\ CodecIdle /\ MergeIdle /\ InvertIdle /\ QueryIdle
    /\ collection \in Collections
    /\ files = <<>>
    /\ self \in {BSBIIndex_new(e) : e \in {"VBE", "Simple8b"}}
    /\ pc = "blocks"
    /\ block_k = 0
    /\ td = <<>>

otherVars == <<codecVars, mergeVars, invertVars>>

\* The name of the block being processed.
block_path == block_paths(collection)[block_k + 1]

\* start_indexing, per block: parsing_block, then the name of its index.
ParseBlock ==
    /\ pc = "blocks" /\ block_k < Len(block_paths(collection))
    /\ LET parsed == parsing_block(self, collection[block_path])
       IN  /\ td' = parsed.td_pairs
           /\ self' = [self EXCEPT
                          !.term_id_map = parsed.term_id_map,
                          !.doc_id_map = parsed.doc_id_map,
                          !.intermediate_indices = Append(@, index_id(block_path))]
    /\ pc' = "open_writer"
    /\ UNCHANGED <<collection, files, block_k, queryVars, otherVars>>

\* with InvertedIndexWriter(index_id, ...) as index
OpenBlockWriter ==
    /\ pc = "open_writer"
    /\ files' = Writer_open(files, Last(self.intermediate_indices))
    /\ pc' = "write"
    /\ UNCHANGED <<collection, self, block_k, td, queryVars, otherVars>>

\* self.write_to_index(td_pairs, index); td_pairs = None
WriteBlock ==
    /\ pc = "write"
    /\ LET name == Last(self.intermediate_indices)
       IN  files' = [files EXCEPT ![name] =
               Writer_append_all(@, self.postings_encoding, write_to_index(td, <<>>), 1)]
    /\ td' = <<>>
    /\ pc' = "close_writer"
    /\ UNCHANGED <<collection, self, block_k, queryVars, otherVars>>

\* The block's with statement ends: the writer is released.
CloseBlockWriter ==
    /\ pc = "close_writer"
    /\ files' = [files EXCEPT ![Last(self.intermediate_indices)] = Writer_close(@)]
    /\ block_k' = block_k + 1
    /\ pc' = "blocks"
    /\ UNCHANGED <<collection, self, td, queryVars, otherVars>>

\* After the last block: self.save().
SaveMaps ==
    /\ pc = "blocks" /\ block_k = Len(block_paths(collection))
    /\ files' = save(self, files)
    /\ pc' = "open_merged"
    /\ UNCHANGED <<collection, self, block_k, td, queryVars, otherVars>>

\* with InvertedIndexWriter(self.index_name, ...) as merged_index
OpenMergedWriter ==
    /\ pc = "open_merged"
    /\ files' = Writer_open(files, IndexName)
    /\ pc' = "merge"
    /\ UNCHANGED <<collection, self, block_k, td, queryVars, otherVars>>

\* The readers of all intermediate indices are entered and merge_index runs.
MergeIndices ==
    /\ pc = "merge"
    /\ LET readers == [k \in 1..Len(self.intermediate_indices) |->
                          Reader_records(files[self.intermediate_indices[k]],
                                         self.postings_encoding)]
       IN  files' = [files EXCEPT ![IndexName] =
               Writer_append_all(@, self.postings_encoding, merge_index(readers), 1)]
    /\ pc' = "close_merged"
    /\ UNCHANGED <<collection, self, block_k, td, queryVars, otherVars>>

\* Both with statements end: readers and the final writer are released.
CloseMergedWriter ==
    /\ pc = "close_merged"
    /\ files' = [files EXCEPT ![IndexName] = Writer_close(@)]
    /\ pc' = "save_again"
    /\ UNCHANGED <<collection, self, block_k, td, queryVars, otherVars>>

\* The second self.save().
SaveAgain ==
    /\ pc = "save_again"
    /\ files' = save(self, files)
    /\ pc' = "ready"
    /\ UNCHANGED <<collection, self, block_k, td, queryVars, otherVars>>

IndexingPcs ==
    {"blocks", "open_writer", "write", "close_writer", "open_merged", "merge",
     "close_merged", "save_again"}

\* The process is killed while start_indexing runs; nothing is released.
Abort ==
    /\ pc \in IndexingPcs
    /\ pc' = "aborted"
    /\ UNCHANGED <<collection, files, self, block_k, td, queryVars, otherVars>>

\* search.py: a new BSBIIndex on the directories of the finished index.
NewInstance ==
    /\ pc = "ready"
    /\ self' = BSBIIndex_new(self.postings_encoding)
    /\ UNCHANGED <<collection, files, pc, block_k, td, queryVars, otherVars>>

\* boolean_retrieve on a query with a stopword: return [].
RetrieveInvalid ==
    /\ pc = "ready"
    /\ query' = [valid |-> FALSE, postfix |-> <<>>]
    /\ stack' = <<>> /\ qpos' = 0 /\ readers_opened' = 0
    /\ result_doc_ids' = <<>> /\ result' = <<>>
    /\ pc' = "returned"
    /\ UNCHANGED <<collection, files, self, block_k, td, otherVars>>

\* boolean_retrieve on a valid query: the postfix form and an empty stack.
BeginQuery ==
    /\ pc = "ready"
    /\ \E q \in Queries :
           /\ q.valid
           /\ query' = q
    /\ stack' = <<>> /\ qpos' = 0 /\ readers_opened' = 0
    /\ result_doc_ids' = <<>> /\ result' = <<>>
    /\ pc' = "eval"
    /\ UNCHANGED <<collection, files, self, block_k, td, otherVars>>

\* An operand resolved by interning it, without the membership test.
query_term_id_intern(term_id_map, token) == IdMap_get_id(term_id_map, token)

\* self.term_id_map[token] if token in self.term_id_map else -1
query_term_id(term_id_map, token) ==
    IF IdMap_contains(term_id_map, token) THEN IdMap_get_id(term_id_map, token)
    ELSE -1

\* The term map after an operand looked up without the membership test:
\* self.term_id_map[token] interns a new token.
query_term_lookup_intern(term_id_map, token) == IdMap_intern(term_id_map, token)

\* The term map after "self.term_id_map[token] if token in self.term_id_map
\* else -1": the subscript is evaluated for a token of the map only.
query_term_lookup(term_id_map, token) ==
    IF IdMap_contains(term_id_map, token) THEN IdMap_intern(term_id_map, token)
    ELSE term_id_map

\* The try block: the postings of term_id in the final index; the bare
\* except turns a reader that cannot be entered into an empty list.
query_postings(obj, fs, term_id) ==
    IF Reader_can_open(fs, IndexName)
    THEN Reader_get_postings_list(fs[IndexName], obj.postings_encoding, term_id)
    ELSE <<>>

\* The stack after an operator token: both operands are popped inside the
\* call, the first-popped one is the first argument.
apply_operator(stk, token) ==
    LET first_popped == stk[Len(stk)]
        second_popped == stk[Len(stk) - 1]
        rest == SubSeq(stk, 1, Len(stk) - 2)
    IN  IF token = "AND"
        THEN Append(rest, sort_intersect_list(first_popped, second_popped))
        ELSE IF token = "OR"
        THEN Append(rest, sort_union_list(first_popped, second_popped))
        ELSE IF token = "DIFF"
        THEN Append(rest, sort_diff_list(first_popped, second_popped))
        ELSE rest

\* One iteration of the loop over the postfix tokens, on an operand.
EvalOperand ==
    /\ pc = "eval" /\ qpos < Len(query.postfix)
    /\ LET token == query.postfix[qpos + 1]
           term_id == query_term_id(self.term_id_map, token)
       IN  /\ token \notin special_tokens
           /\ IF term_id = -1
              THEN /\ stack' = Append(stack, <<>>)
                   /\ readers_opened' = readers_opened
              ELSE /\ stack' = Append(stack, query_postings(self, files, term_id))
                   /\ readers_opened' = readers_opened + 1
           /\ self' = [self EXCEPT
                          !.term_id_map = query_term_lookup(@, token)]
    /\ qpos' = qpos + 1
    /\ UNCHANGED <<collection, files, pc, block_k, td, query, result_doc_ids,
                   result, otherVars>>

\* One iteration of the loop over the postfix tokens, on an operator.
EvalOperator ==
    /\ pc = "eval" /\ qpos < Len(query.postfix)
    /\ LET token == query.postfix[qpos + 1]
       IN  /\ token \in special_tokens
           /\ stack' = apply_operator(stack, token)
    /\ qpos' = qpos + 1
    /\ UNCHANGED <<indexVars, query, readers_opened, result_doc_ids, result, otherVars>>

\* The names of a list of doc ids: [self.doc_id_map[doc_id] for doc_id in ...].
doc_names(doc_id_map, ids) == [k \in 1..Len(ids) |-> IdMap_str(doc_id_map, ids[k])]

\* After the loop: the top of the stack, as document names.
ReturnResult ==
    /\ pc = "eval" /\ qpos = Len(query.postfix)
    /\ IF stack # <<>>
       THEN /\ result_doc_ids' = Last(stack)
            /\ stack' = SubSeq(stack, 1, Len(stack) - 1)
            /\ result' = doc_names(self.doc_id_map, Last(stack))
       ELSE /\ result_doc_ids' = <<>>
            /\ stack' = stack
            /\ result' = <<>>
    /\ pc' = "returned"
    /\ UNCHANGED <<collection, files, self, block_k, td, query, qpos,
                   readers_opened, otherVars>>

\* The caller is done with the returned list; the object awaits a call.
NextQuery ==
    /\ pc = "returned"
    /\ pc' = "ready"
    /\ query' = [valid |-> TRUE, postfix |-> <<>>]
    /\ stack' = <<>> /\ qpos' = 0 /\ readers_opened' = 0
    /\ result_doc_ids' = <<>> /\ result' = <<>>
    /\ UNCHANGED <<collection, files, self, block_k, td, otherVars>>

Next ==
    \/ ParseBlock \/ OpenBlockWriter \/ WriteBlock \/ CloseBlockWriter
    \/ SaveMaps \/ OpenMergedWriter \/ MergeIndices \/ CloseMergedWriter
    \/ SaveAgain \/ Abort
    \/ NewInstance \/ RetrieveInvalid \/ BeginQuery
    \/ EvalOperand \/ EvalOperator \/ ReturnResult \/ NextQuery

Spec == InitBsbi /\ [][Next]_vars

-----------------------------------------------------------------------------
(* Properties of start_indexing.                                           *)

IntermediateFiles ==
    {n \in DOMAIN files : n \notin {IndexName, TermsDict, DocsDict}}

\* The blocks whose intermediate index exists.
BlocksWithIndex == {b \in DOMAIN collection : index_id(b) \in DOMAIN files}

\* Every block has its intermediate index, written and released.
AllBlocksReleased ==
    \A b \in DOMAIN collection :
        index_id(b) \in DOMAIN files /\ files[index_id(b)].closed

\* C9: in start_indexing the final index exists only once every block's
\* intermediate index is written and released and both IdMaps are persisted,
\* so an abort between blocks leaves no final index; the blocks are taken
\* one at a time in ascending lexicographic order of their names, and the
\* intermediate indices are exactly intermediate_index_<block name>, one
\* per block taken so far.
C9_FinalIndexAfterBlocks ==
    /\ IndexName \in DOMAIN files =>
           /\ AllBlocksReleased
           /\ TermsDict \in DOMAIN files /\ DocsDict \in DOMAIN files
    /\ (pc = "blocks" /\ block_k < Cardinality(DOMAIN collection)) =>
           IndexName \notin DOMAIN files
    /\ IntermediateFiles = {index_id(b) : b \in BlocksWithIndex}
    /\ \A b \in BlocksWithIndex :
           \A c \in DOMAIN collection : ListLess(c, b) => c \in BlocksWithIndex
    /\ Cardinality({n \in IntermediateFiles : ~files[n].closed}) <= 1
    /\ pc \in IndexingPcs =>
           /\ Len(self.intermediate_indices) <= Cardinality(DOMAIN collection)
           /\ \A k \in 1..Len(self.intermediate_indices) :
                  /\ \E b \in DOMAIN collection :
                         self.intermediate_indices[k] = index_id(b)
                  /\ \A j \in 1..(k - 1) :
                         self.intermediate_indices[j] # self.intermediate_indices[k]
           /\ IntermediateFiles \subseteq Range(self.intermediate_indices)

\* Indexing of the blocks "10" and "2" (in that order) has finished.
C9_Witness ==
    /\ pc = "ready"
    /\ self.intermediate_indices = <<index_id(<<1, 0>>), index_id(<<2>>)>>
    /\ Reader_can_open(files, IndexName)
    /\ files[IndexName].dict # <<>>

-----------------------------------------------------------------------------
(* Properties of boolean_retrieve.                                         *)

\* The stored postings of a term of the term map m.
StoredPostings(m, token) ==
    IF Reader_can_open(files, IndexName)
    THEN Reader_get_postings_list(files[IndexName], self.postings_encoding,
                                  IdMap_id(m, token))
    ELSE <<>>

\* The list an operand stands for when resolved against the term map m,
\* an empty list substituted for a term m does not hold.
OperandList(m, token) ==
    IF IdMap_contains(m, token) THEN StoredPostings(m, token) ELSE <<>>

\* A DIFF B on the stack: B is popped first, A second.
DiffSecondMinusFirst(stk) ==
    Append(SubSeq(stk, 1, Len(stk) - 2),
           sort_diff_list(stk[Len(stk) - 1], stk[Len(stk)]))

\* The postfix sequence evaluated from token k on, operands resolved
\* against m; diff_as_specified selects A DIFF B = A minus B.
RECURSIVE EvalPostfix(_, _, _, _, _)
EvalPostfix(postfix, k, stk, m, diff_as_specified) ==
    IF k > Len(postfix) THEN stk
    ELSE LET token == postfix[k]
         IN  EvalPostfix(postfix, k + 1,
                 IF token \notin special_tokens
                 THEN Append(stk, OperandList(m, token))
                 ELSE IF token = "DIFF" /\ diff_as_specified
                 THEN DiffSecondMinusFirst(stk)
                 ELSE apply_operator(stk, token),
                 m, diff_as_specified)

\* The operand tokens of the query that the term map m holds.
PresentOperands(postfix, m) ==
    {k \in 1..Len(postfix) :
        postfix[k] \notin special_tokens /\ IdMap_contains(m, postfix[k])}

\* C1: for every DIFF token the first-popped list is the subtrahend and the
\* second-popped list the minuend, so the query returns what the postfix
\* sequence yields with A DIFF B = the values of A not in B.
C1_DiffSecondPoppedIsMinuend ==
    (pc = "returned" /\ query.valid) =>
        result_doc_ids =
            Last(EvalPostfix(query.postfix, 1, <<>>, self.term_id_map, TRUE))

\* C3: at query time the operands are resolved against the persisted term
\* IdMap and the result against the persisted document IdMap, also on a
\* newly constructed BSBIIndex, so an indexed term yields its postings.
C3_PersistedIdMapsUsed ==
    (pc = "returned" /\ query.valid) =>
        result =
            doc_names(files[DocsDict],
                Last(EvalPostfix(query.postfix, 1, <<>>, files[TermsDict], FALSE)))

\* A step of boolean_retrieve: its entry, an iteration of its loop, its return.
RetrieveStep == pc = "eval" \/ pc' \in {"eval", "returned"}

\* C12: boolean_retrieve leaves both IdMaps unchanged for every query: no
\* step of it changes the size or the contents of the term IdMap (an absent
\* operand is not interned) or of the document IdMap (read by id only).
C12_IdMapsReadOnly ==
    [][RetrieveStep =>
          /\ self'.term_id_map = self.term_id_map
          /\ self'.doc_id_map = self.doc_id_map]_vars

\* "beta AND zeta" returned on the instance that indexed beta but not zeta.
C12_Witness ==
    /\ pc = "returned"
    /\ query.postfix = <<"beta", "zeta", "AND">>
    /\ IdMap_contains(self.term_id_map, "beta")
    /\ ~IdMap_contains(self.term_id_map, "zeta")
    /\ self.term_id_map = files[TermsDict]
    /\ self.doc_id_map = files[DocsDict]
    /\ self.doc_id_map # <<>>

\* C4: a query with an operand absent from the term IdMap returns what the
\* same postfix sequence returns with an empty list in place of that
\* operand, and a reader is opened for the present operands only.
C4_AbsentTermIsEmptyList ==
    (pc = "returned" /\ query.valid) =>
        /\ result_doc_ids =
               Last(EvalPostfix(query.postfix, 1, <<>>, self.term_id_map, FALSE))
        /\ readers_opened =
               Cardinality(PresentOperands(query.postfix, self.term_id_map))
        /\ Len(result) = Len(result_doc_ids)

\* "alpha OR zeta" returned the documents of alpha: zeta is absent.
C4_Witness ==
    /\ pc = "returned"
    /\ query.postfix = <<"alpha", "zeta", "OR">>
    /\ IdMap_contains(self.term_id_map, "alpha")
    /\ ~IdMap_contains(self.term_id_map, "zeta")
    /\ readers_opened = 1
    /\ result_doc_ids # <<>>

=============================================================================
